---- MODULE Spec2Model ----
(***************************************************************************)
(* State-machine model of RecordsComponent (the record catalog screen) and *)
(* of the parts of GroupsService it calls.                                 *)
(*                                                                         *)
(* Records are JavaScript objects, so the model keeps a heap: `records`,   *)
(* `filteredRecords`, the edit buffer `record` and the record captured by  *)
(* a pending cart call hold references into `heap`.  A handler that        *)
(* mutates an object is seen through every list that shares it; a handler  *)
(* that spreads ({...record}) allocates a new object.                      *)
(*                                                                         *)
(* Strings are sequences of one-character strings.  A field that the code  *)
(* reads only through `x || d` or `!x` is stored as its falsy              *)
(* representative: 0 for a null/absent number, <<>> for a null/empty       *)
(* string, FALSE for an absent boolean.                                    *)
(***************************************************************************)
EXTENDS Integers, Sequences, FiniteSets, Bags, TLC

(* ------------------------------ bounds --------------------------------- *)
\* Largest cart amount a record is let to reach by repeated callbacks.
MaxAmount == 2
\* Cart calls (addToCart/removeFromCart) in flight at once.
MaxCartCalls == 1
\* Refreshes (getRecords) in flight at once, both phases counted.
MaxRefresh == 1
\* CRUD calls (addRecord/updateRecord/deleteRecord) in flight at once.
MaxCrud == 1
\* Refreshes in flight at once where refreshes are let to overlap.
MaxOverlap == 2

(* ------------------------------ strings -------------------------------- *)
Range(s) == {s[i] : i \in DOMAIN s}

\* String.prototype.toLowerCase on the alphabet the inputs use.
LowerChar(c) ==
  CASE c = "A" -> "a"
    [] c = "B" -> "b"
    [] c = "O" -> "o"
    [] c = "P" -> "p"
    [] c = "R" -> "r"
    [] OTHER -> c

toLowerCase(s) == [i \in DOMAIN s |-> LowerChar(s[i])]

\* String.prototype.includes: t occurs in s as a contiguous substring.
includes(s, t) ==
  \E i \in 0..(Len(s) - Len(t)) : SubSeq(s, i + 1, i + Len(t)) = t

RECURSIVE trimStart(_)
trimStart(s) ==
  IF s # <<>> /\ Head(s) = " " THEN trimStart(Tail(s)) ELSE s

RECURSIVE trimEnd(_)
trimEnd(s) ==
  IF s # <<>> /\ s[Len(s)] = " " THEN trimEnd(SubSeq(s, 1, Len(s) - 1)) ELSE s

\* String.prototype.trim
trim(s) == trimEnd(trimStart(s))

Digits == <<"0", "1", "2", "3", "4", "5", "6", "7", "8", "9">>

\* Number.prototype.toString for a non-negative integer.
RECURSIVE toString(_)
toString(n) ==
  IF n < 10 THEN <<Digits[n + 1]>>
  ELSE toString(n \div 10) \o <<Digits[(n % 10) + 1]>>

(* --------------------------- server payloads --------------------------- *)
\* A record as the Gateway sends it.  stockIsNumber is
\* `typeof record.stock === 'number'`; groupName is a name the payload
\* itself carries.
PayloadA ==
  [idRecord |-> 1, titleRecord |-> <<"A", "b">>, yearOfPublication |-> 1997,
   imageRecord |-> <<"a", ".", "p">>, price |-> 10, stock |-> 2,
   stockIsNumber |-> TRUE, discontinued |-> FALSE, groupId |-> 9,
   groupName |-> <<"J">>]

\* The same record after the server's stock changed.
PayloadA5 == [PayloadA EXCEPT !.stock = 5]

\* A record with no year, no image, stock 0 and a group that has no name.
PayloadB ==
  [idRecord |-> 2, titleRecord |-> <<"B">>, yearOfPublication |-> 0,
   imageRecord |-> <<>>, price |-> 0, stock |-> 0,
   stockIsNumber |-> TRUE, discontinued |-> FALSE, groupId |-> 8,
   groupName |-> <<>>]

\* The record lists the Gateway may answer a fetch with.
ServerRecordLists == {<<PayloadA, PayloadB>>, <<PayloadA5>>}

\* The second record sent without a stock field.
PayloadNoStock == [PayloadB EXCEPT !.stockIsNumber = FALSE]

\* A record sent without idRecord and without groupId.
PayloadNoId ==
  [idRecord |-> 0, titleRecord |-> <<"N">>, yearOfPublication |-> 0,
   imageRecord |-> <<>>, price |-> 0, stock |-> 5,
   stockIsNumber |-> TRUE, discontinued |-> FALSE, groupId |-> 0,
   groupName |-> <<>>]

\* Record lists with incomplete records.
OddRecordLists == {<<PayloadA, PayloadNoStock>>, <<PayloadNoId, PayloadB>>}

\* The envelopes a list may arrive in; "other" is an object of none of the
\* tolerated shapes.
Shapes == {"array", "$values", "data", "other"}

GroupRock == [idGroup |-> 9, nameGroup |-> <<"R", "o">>]
GroupPop == [idGroup |-> 9, nameGroup |-> <<"P">>]
GroupNoName == [idGroup |-> 8, nameGroup |-> <<>>]

\* The group lists the Gateway may answer a fetch with.
ServerGroupLists == {<<GroupRock>>, <<GroupPop, GroupNoName>>}

\* Values the Stock Event Channel may carry besides the seeded ones.
StockValues == {0, 5}

RecordIds == {1, 2}

\* Cart snapshots: sequences of {idRecord, amount}; amount 0 stands for a
\* missing or zero amount (`cartItem.amount || 0`).
CartSnapshots ==
  {<<>>,
   <<[idRecord |-> 1, amount |-> 1]>>,
   <<[idRecord |-> 2, amount |-> 0], [idRecord |-> 1, amount |-> 2]>>}

\* Texts typed into the search box.
SearchTexts == {<<>>, <<" ">>, <<"9", "7">>, <<"r", "O">>, <<" ", "b">>}

\* Transport errors as controlError sees them: err.error is an object with
\* a message, a string body, or neither.
HttpErrors ==
  {[kind |-> "object", message |-> <<"C">>],
   [kind |-> "string", message |-> <<"S">>],
   [kind |-> "none", message |-> <<>>]}

GenericErrorMessage == <<"A", "n">>

\* The groups updateGroup may be called with: with or without a genre, an
\* image already stored, a photo newly attached.
EditedGroups ==
  [idGroup : {8, 9},
   nameGroup : {<<"P">>},
   musicGenreId : {0, 3},
   imageGroup : {<<>>, <<"g", ".", "p">>},
   photo : {<<>>, <<"F">>}]

\* What the file input hands to onChange: no file, or one file.
FileLists == {<<>>, <<[data |-> <<"F">>, name |-> <<"f">>]>>}

(* ------------------------------- state --------------------------------- *)
VARIABLES
  records,          \* this.records: sequence of object references
  filteredRecords,  \* this.filteredRecords: sequence of object references
  heap,             \* object reference -> record object
  record,           \* this.record: reference of the edit buffer object
  searchText,       \* this.searchText
  groups,           \* this.groups
  visibleError,     \* this.visibleError
  errorMessage,     \* this.errorMessage
  userEmail,        \* userService.email is present
  recFetch,         \* recordsService.getRecords() calls in flight
  grpFetch,         \* bag of recordsArray captured by a pending group fetch
  groupsFetch,      \* the constructor's getGroups() call is in flight
  cartCalls,        \* pending cartService calls: [kind, obj]
  crudCalls,        \* pending recordsService CRUD calls: [kind]
  lastStock,        \* history: idRecord -> newStock of the latest event, -1 if none
  cartSnap,         \* history: the latest cart snapshot delivered
  snapSeen,         \* history: a cart snapshot has been delivered
  callSince,        \* history: a cart call was started since that snapshot
  lastGroups,       \* history: the group list delivered most recently
  groupsSeen,       \* history: a group list has been delivered
  last,             \* history: the handler that ran last, its object, the amount before, its input
  visiblePhoto,     \* this.visiblePhoto
  photo,            \* this.photo
  flight,           \* history: the refreshes in flight, in the order they were issued
  request           \* the request GroupsService.updateGroup sent last, if any

vars ==
  <<records, filteredRecords, heap, record, searchText, groups, visibleError,
    errorMessage, userEmail, recFetch, grpFetch, groupsFetch, cartCalls,
    crudCalls, lastStock, cartSnap, snapSeen, callSince, lastGroups,
    groupsSeen, last, visiblePhoto, photo, flight, request>>

\* The empty sentinel of the edit buffer.
EmptyRecord ==
  [idRecord |-> 0, titleRecord |-> <<>>, yearOfPublication |-> 0,
   imageRecord |-> <<>>, photo |-> <<>>, photoName |-> <<>>, price |-> 0,
   stock |-> 0, discontinued |-> FALSE, groupId |-> 0, groupName |-> <<>>,
   nameGroup |-> <<>>, inCart |-> FALSE, amount |-> 0]

(* ---------------------------- heap helpers ----------------------------- *)
Min(S) == CHOOSE x \in S : \A y \in S : x <= y

\* The n smallest references not in `used`, in increasing order.
RECURSIVE FreshRefs(_, _)
FreshRefs(used, n) ==
  IF n = 0 THEN <<>>
  ELSE LET x == Min((1..(Cardinality(used) + 1)) \ used)
       IN  <<x>> \o FreshRefs(used \cup {x}, n - 1)

RemoveAt(s, i) == SubSeq(s, 1, i - 1) \o SubSeq(s, i + 1, Len(s))

\* The references a view [heap, records, filteredRecords, record, cartCalls,
\* last] holds, in a fixed order: the lists, the edit buffer, the pending
\* cart callbacks, the handler that ran last.
RootSeq(v) ==
  v.records \o v.filteredRecords \o <<v.record>>
    \o [i \in DOMAIN v.cartCalls |-> v.cartCalls[i].obj]
    \o (IF v.last.obj = 0 THEN <<>> ELSE <<v.last.obj>>)

RECURSIVE Dedupe(_, _)
Dedupe(s, seen) ==
  IF s = <<>> THEN <<>>
  ELSE IF Head(s) \in seen THEN Dedupe(Tail(s), seen)
  ELSE <<Head(s)>> \o Dedupe(Tail(s), seen \cup {Head(s)})

\* Garbage collection and renaming: the objects no root reaches are dropped
\* and the others are renamed 1..n in root order.  References are opaque to
\* the program, so two heaps that differ by a renaming are one state.
Canon(v) ==
  LET live == Dedupe(RootSeq(v), {})
      ren(o) == CHOOSE k \in DOMAIN live : live[k] = o
  IN  [heap |-> [k \in DOMAIN live |-> v.heap[live[k]]],
       records |-> [i \in DOMAIN v.records |-> ren(v.records[i])],
       filteredRecords |->
         [i \in DOMAIN v.filteredRecords |-> ren(v.filteredRecords[i])],
       record |-> ren(v.record),
       cartCalls |->
         [i \in DOMAIN v.cartCalls |->
            [v.cartCalls[i] EXCEPT !.obj = ren(v.cartCalls[i].obj)]],
       last |-> IF v.last.obj = 0 THEN v.last
                ELSE [v.last EXCEPT !.obj = ren(v.last.obj)]]

(* ------------------------- response handling --------------------------- *)
\* getRecords' envelope sniffing: a bare array, {$values: [...]} or
\* {data: [...]}; anything else leaves recordsArray empty.
NormalizeRecords(resp) ==
  CASE resp.shape = "array" -> resp.list
    [] resp.shape = "$values" -> resp.list
    [] resp.shape = "data" -> resp.list
    [] OTHER -> <<>>

\* GroupsService.getGroups' map: a bare array, response.$values,
\* response.data, or Object.values(response) for any other object (for
\* shape "other", resp.list is the list of the object's own values).
ServiceGetGroups(resp) ==
  CASE resp.shape = "array" -> resp.list
    [] resp.shape = "$values" -> resp.list
    [] resp.shape = "data" -> resp.list
    [] OTHER -> resp.list

\* GroupsService.getGroups' catchError: a failed request is delivered to the
\* subscriber's next callback as an empty array.
ServiceGetGroupsFailed == <<>>

\* What a subscriber of GroupsService.getGroups is handed: always an array.
Delivered(gs) == [shape |-> "array", list |-> gs]

\* The sniffing of groupsResponse in getRecords' group continuation: a bare
\* array or {$values: [...]}; anything else leaves groups empty.
NormalizeContinuationGroups(groupsResponse) ==
  CASE groupsResponse.shape = "array" -> groupsResponse.list
    [] groupsResponse.shape = "$values" -> groupsResponse.list
    [] OTHER -> <<>>

\* The sniffing of response in the component's getGroups: a bare array,
\* response.$values or response.data; anything else leaves groupsArray empty.
NormalizeGroups(response) ==
  CASE response.shape = "array" -> response.list
    [] response.shape = "$values" -> response.list
    [] response.shape = "data" -> response.list
    [] OTHER -> <<>>

\* A variant of ResolveGroupName that takes the first group of the list
\* without comparing ids.
ResolveGroupNameFirst(groupId, gs) ==
  IF groupId = 0 \/ gs = <<>> THEN <<>> ELSE gs[1].nameGroup

\* groups.find(g => g.idGroup === groupId), then `group.nameGroup || ''`;
\* not looked up at all when groupId is null.
ResolveGroupName(groupId, gs) ==
  LET I == {i \in DOMAIN gs : gs[i].idGroup = groupId}
  IN  IF groupId = 0 \/ I = {} THEN <<>> ELSE gs[Min(I)].nameGroup

\* A variant of ProcessRecord that falls back on the name the payload
\* carries when the lookup gives none.
ProcessRecordPayloadName(p, gs) ==
  LET name == IF ResolveGroupName(p.groupId, gs) = <<>> THEN p.groupName
              ELSE ResolveGroupName(p.groupId, gs)
  IN  [idRecord |-> p.idRecord,
       titleRecord |-> p.titleRecord,
       yearOfPublication |-> p.yearOfPublication,
       imageRecord |-> p.imageRecord,
       photo |-> <<>>,
       photoName |-> <<>>,
       price |-> p.price,
       stock |-> IF p.stockIsNumber THEN p.stock ELSE 0,
       discontinued |-> p.discontinued,
       groupId |-> p.groupId,
       groupName |-> name,
       nameGroup |-> name,
       inCart |-> FALSE,
       amount |-> 0]

\* The processedRecord built for one fetched record.
ProcessRecord(p, gs) ==
  [idRecord |-> p.idRecord,
   titleRecord |-> p.titleRecord,
   yearOfPublication |-> p.yearOfPublication,
   imageRecord |-> p.imageRecord,
   photo |-> <<>>,
   photoName |-> <<>>,
   price |-> p.price,
   stock |-> IF p.stockIsNumber THEN p.stock ELSE 0,
   discontinued |-> p.discontinued,
   groupId |-> p.groupId,
   groupName |-> ResolveGroupName(p.groupId, gs),
   nameGroup |-> ResolveGroupName(p.groupId, gs),
   inCart |-> FALSE,
   amount |-> 0]

(* ----------------------------- search filter --------------------------- *)
\* A variant of Matches that does not look at the year.
MatchesTitleOrGroup(r, searchTerm) ==
  \/ includes(toLowerCase(r.titleRecord), searchTerm)
  \/ includes(toLowerCase(r.groupName), searchTerm)

\* The predicate of filterRecords; a null year is skipped by `?.`.
Matches(r, searchTerm) ==
  \/ includes(toLowerCase(r.titleRecord), searchTerm)
  \/ includes(toLowerCase(r.groupName), searchTerm)
  \/ r.yearOfPublication # 0 /\ includes(toString(r.yearOfPublication), searchTerm)

RECURSIVE FilterSeq(_, _, _)
FilterSeq(h, list, searchTerm) ==
  IF list = <<>> THEN <<>>
  ELSE (IF Matches(h[Head(list)], searchTerm) THEN <<Head(list)>> ELSE <<>>)
         \o FilterSeq(h, Tail(list), searchTerm)

\* The list filterRecords assigns to filteredRecords.
SearchFilter(h, list, text) ==
  IF trim(text) = <<>> THEN list
  ELSE FilterSeq(h, list, toLowerCase(text))

(* ---------------------------- event handlers --------------------------- *)
\* list.map(record => record.idRecord === recordId
\*                      ? { ...record, stock: newStock } : record)
MapStock(h, list, recordId, newStock) ==
  LET M == {i \in DOMAIN list : h[list[i]].idRecord = recordId}
      fresh == FreshRefs(DOMAIN h, Cardinality(M))
      rank(i) == Cardinality({j \in M : j <= i})
      src(o) == list[CHOOSE i \in M : fresh[rank(i)] = o]
  IN  [list |-> [i \in DOMAIN list |->
                   IF i \in M THEN fresh[rank(i)] ELSE list[i]],
       heap |-> [o \in (DOMAIN h) \cup Range(fresh) |->
                   IF o \in DOMAIN h THEN h[o]
                   ELSE [h[src(o)] EXCEPT !.stock = newStock]]]

\* A variant of ApplyStockUpdate that maps records only.
ApplyStockUpdateRecordsOnly(v, recordId, newStock) ==
  LET a == MapStock(v.heap, v.records, recordId, newStock)
  IN  [v EXCEPT !.heap = a.heap, !.records = a.list]

\* The stockUpdate$ subscriber for a non-empty update, on a view.
ApplyStockUpdate(v, recordId, newStock) ==
  LET a == MapStock(v.heap, v.records, recordId, newStock)
      b == MapStock(a.heap, v.filteredRecords, recordId, newStock)
  IN  [v EXCEPT !.heap = b.heap, !.records = a.list, !.filteredRecords = b.list]

\* stockService.updateStock(recordId, stock): publishes the pair on the
\* Stock Event Channel, whose subscribers run before it returns.
UpdateStock(st, recordId, stock) ==
  [view |-> ApplyStockUpdate(st.view, recordId, stock),
   lastStock |-> [st.lastStock EXCEPT ![recordId] = stock],
   calls |-> st.calls + 1]

\* recordsArray.forEach: seed the channel with every record that has a
\* truthy idRecord and a numeric stock.
RECURSIVE SeedStock(_, _)
SeedStock(st, recordsArray) ==
  IF recordsArray = <<>> THEN st
  ELSE LET p == Head(recordsArray)
       IN  SeedStock(IF p.idRecord # 0 /\ p.stockIsNumber
                       THEN UpdateStock(st, p.idRecord, p.stock)
                       ELSE st,
                     Tail(recordsArray))

\* cartItems.find(item => item.idRecord === id): index of the first match,
\* 0 when there is none.
FindCartItem(cartItems, id) ==
  LET I == {i \in DOMAIN cartItems : cartItems[i].idRecord = id}
  IN  IF I = {} THEN 0 ELSE Min(I)

\* A variant of ApplyCart that sets inCart and leaves amount as it was.
ApplyCartKeepAmount(h, list, cartItems) ==
  [o \in DOMAIN h |->
     IF o \in Range(list)
       THEN [h[o] EXCEPT !.inCart = (FindCartItem(cartItems, h[o].idRecord) # 0)]
       ELSE h[o]]

\* The cart$ subscriber's forEach: every object in records gets inCart and
\* amount from the snapshot, in place.
ApplyCart(h, list, cartItems) ==
  [o \in DOMAIN h |->
     IF o \in Range(list)
       THEN LET k == FindCartItem(cartItems, h[o].idRecord)
            IN  [h[o] EXCEPT !.inCart = (k # 0),
                             !.amount = IF k # 0 THEN cartItems[k].amount ELSE 0]
       ELSE h[o]]

\* controlError: the message shown for a transport error.
ControlError(err) ==
  CASE err.kind = "object" -> err.message
    [] err.kind = "string" -> err.message
    [] OTHER -> GenericErrorMessage

View ==
  [heap |-> heap, records |-> records, filteredRecords |-> filteredRecords,
   record |-> record, cartCalls |-> cartCalls, last |-> last]

\* Stores a view in the six variables that hold references.
Publish(v) ==
  \E c \in {Canon(v)} :
    /\ heap' = c.heap
    /\ records' = c.records
    /\ filteredRecords' = c.filteredRecords
    /\ record' = c.record
    /\ cartCalls' = c.cartCalls
    /\ last' = c.last

(* ------------------------------- Init ---------------------------------- *)
\* The history record of a handler that ran on no record object, with the
\* input it was given.
Did(name, arg) == [op |-> name, obj |-> 0, a |-> 0, arg |-> arg]

NoOp(name) == Did(name, <<>>)

\* A refresh just issued: its record fetch is pending.
NewRefresh == [phase |-> "records", ra |-> <<>>, overtaken |-> FALSE]

\* The state the constructor leaves: empty lists, the sentinel in the edit
\* buffer, getRecords() and getGroups() issued and not yet answered.
Init ==
  /\ records = <<>>
  /\ filteredRecords = <<>>
  /\ heap = <<EmptyRecord>>
  /\ record = 1
  /\ searchText = <<>>
  /\ groups = <<>>
  /\ visibleError = FALSE
  /\ errorMessage = <<>>
  /\ userEmail \in BOOLEAN
  /\ recFetch = 1
  /\ grpFetch = EmptyBag
  /\ groupsFetch = TRUE
  /\ cartCalls = <<>>
  /\ crudCalls = <<>>
  /\ lastStock = [id \in RecordIds |-> -1]
  /\ cartSnap = <<>>
  /\ snapSeen = FALSE
  /\ callSince = FALSE
  /\ lastGroups = <<>>
  /\ groupsSeen = FALSE
  /\ last = NoOp("constructor")
  /\ visiblePhoto = FALSE
  /\ photo = <<>>
  /\ flight = <<NewRefresh>>
  /\ request = <<>>

RefreshesInFlight == recFetch + BagCardinality(grpFetch)

\* The refreshes whose record fetch is pending, by position in `flight`.
PendingRecords == {k \in DOMAIN flight : flight[k].phase = "records"}

\* The refreshes whose group fetch is pending with recordsArray captured.
PendingGroups(recordsArray) ==
  {k \in DOMAIN flight :
     flight[k].phase = "groups" /\ flight[k].ra = recordsArray}

(* ------------------------------ refresh -------------------------------- *)
\* getRecords, next callback: normalise, seed the Stock Event Channel, then
\* issue the group fetch with recordsArray captured.
RecordsFetched(resp) ==
  /\ recFetch > 0
  /\ LET recordsArray == NormalizeRecords(resp)
         st == SeedStock([view |-> View, lastStock |-> lastStock, calls |-> 0],
                         recordsArray)
     IN  /\ recFetch' = recFetch - 1
         /\ grpFetch' = grpFetch (+) SetToBag({recordsArray})
         /\ lastStock' = st.lastStock
         /\ \E k \in PendingRecords :
              flight' = [flight EXCEPT ![k].phase = "groups", ![k].ra = recordsArray]
         /\ UNCHANGED <<request, visiblePhoto, photo,
                 searchText, groups, visibleError, errorMessage,
                        userEmail, groupsFetch, crudCalls, cartSnap,
                        snapSeen, callSince, lastGroups, groupsSeen>>
         /\ Publish([st.view EXCEPT
              !.last = [Did("getRecords.next", resp) EXCEPT !.a = st.calls]])

\* getRecords, error callback.
RecordsFetchFailed(err) ==
  /\ recFetch > 0
  /\ recFetch' = recFetch - 1
  /\ visibleError' = TRUE
  /\ errorMessage' = ControlError(err)
  /\ \E k \in PendingRecords : flight' = RemoveAt(flight, k)
  /\ UNCHANGED <<request, visiblePhoto, photo,
                 searchText, groups, userEmail, grpFetch, groupsFetch,
                 crudCalls, lastStock, cartSnap, snapSeen, callSince,
                 lastGroups, groupsSeen>>
  /\ Publish([View EXCEPT !.last = Did("getRecords.error", err)])

\* A variant of ContinuationView in which an answer that a refresh issued
\* later has already overtaken is dropped.
ContinuationViewNewestWins(v, recordsArray, groupList, overtaken) ==
  IF overtaken THEN v
  ELSE LET fresh == FreshRefs(DOMAIN v.heap, Len(recordsArray))
       IN  [v EXCEPT
              !.heap = [o \in (DOMAIN v.heap) \cup Range(fresh) |->
                          IF o \in DOMAIN v.heap THEN v.heap[o]
                          ELSE ProcessRecord(
                                 recordsArray[CHOOSE i \in DOMAIN fresh : fresh[i] = o],
                                 groupList)],
              !.records = fresh,
              !.filteredRecords = fresh]

\* The view the group continuation leaves: processedRecords, one new object
\* for each fetched record, in records and in filteredRecords.  Whether a
\* later refresh has already finished (`overtaken`) makes no difference.
ContinuationView(v, recordsArray, groupList, overtaken) ==
  LET fresh == FreshRefs(DOMAIN v.heap, Len(recordsArray))
  IN  [v EXCEPT
         !.heap = [o \in (DOMAIN v.heap) \cup Range(fresh) |->
                     IF o \in DOMAIN v.heap THEN v.heap[o]
                     ELSE ProcessRecord(
                            recordsArray[CHOOSE i \in DOMAIN fresh : fresh[i] = o],
                            groupList)],
         !.records = fresh,
         !.filteredRecords = fresh]

\* The group continuation of getRecords (next callback) for the groups `gs`
\* the service delivered: build processedRecords and publish them,
\* for the refresh at position k of `flight`, answered with `resp`.
GroupContinuation(recordsArray, gs, name, resp) ==
  LET groupList == NormalizeContinuationGroups(Delivered(gs))
  IN  /\ grpFetch' = grpFetch (-) SetToBag({recordsArray})
      /\ lastGroups' = groupList
      /\ groupsSeen' = TRUE
      /\ UNCHANGED <<request, visiblePhoto, photo,
                     searchText, groups, visibleError, errorMessage,
                     userEmail, recFetch, groupsFetch, crudCalls,
                     lastStock, cartSnap, snapSeen, callSince>>
      /\ \E k \in PendingGroups(recordsArray) :
           /\ flight' = RemoveAt([j \in DOMAIN flight |->
                                    IF j < k THEN [flight[j] EXCEPT !.overtaken = TRUE]
                                    ELSE flight[j]], k)
           /\ Publish([ContinuationView(View, recordsArray, groupList,
                                        flight[k].overtaken)
                       EXCEPT !.last = Did(name, [shape |-> resp.shape,
                                                  list |-> resp.list,
                                                  overtaken |-> flight[k].overtaken])])

\* The group fetch of a refresh answered.
RefreshGroupsFetched(recordsArray, resp) ==
  /\ recordsArray \in BagToSet(grpFetch)
  /\ GroupContinuation(recordsArray, ServiceGetGroups(resp),
                       "getRecords.groups", resp)

\* The group fetch of a refresh failed: GroupsService turns the failure
\* into an empty list, so the same next callback runs.  (The error callback
\* of this subscription is never reached.)
FailedResponse == [shape |-> "failed", list |-> <<>>]

RefreshGroupsFailed(recordsArray) ==
  /\ recordsArray \in BagToSet(grpFetch)
  /\ GroupContinuation(recordsArray, ServiceGetGroupsFailed,
                       "getRecords.groupsFailed", FailedResponse)

(* ------------------------------ getGroups ------------------------------ *)
\* The component's getGroups next callback for the groups the service
\* delivered: it stores them in this.groups and does nothing else.
StoreGroups(gs, name, resp) ==
  /\ groupsFetch
  /\ groupsFetch' = FALSE
  /\ groups' = NormalizeGroups(Delivered(gs))
  /\ lastGroups' = NormalizeGroups(Delivered(gs))
  /\ groupsSeen' = TRUE
  /\ UNCHANGED <<request, visiblePhoto, photo, flight,
                 searchText, visibleError, errorMessage, userEmail,
                 recFetch, grpFetch, crudCalls, lastStock, cartSnap,
                 snapSeen, callSince>>
  /\ Publish([View EXCEPT !.last = Did(name, resp)])

GroupsFetched(resp) == StoreGroups(ServiceGetGroups(resp), "getGroups.next", resp)

\* As above: a failed request reaches the next callback as an empty list.
GroupsFetchFailed ==
  StoreGroups(ServiceGetGroupsFailed, "getGroups.failed", FailedResponse)

(* ---------------------------- event channels --------------------------- *)
\* What stockUpdate$ may emit: nothing (null) or a {recordId, newStock}.
StockUpdates ==
  {[empty |-> TRUE, recordId |-> 0, newStock |-> 0]}
    \cup [empty : {FALSE}, recordId : RecordIds, newStock : StockValues]

\* The stockUpdate$ subscriber.
StockUpdate(update) ==
  /\ lastStock' = IF update.empty THEN lastStock
                  ELSE [lastStock EXCEPT ![update.recordId] = update.newStock]
  /\ UNCHANGED <<request, visiblePhoto, photo, flight,
                 searchText, groups, visibleError, errorMessage,
                 userEmail, recFetch, grpFetch, groupsFetch,
                 crudCalls, cartSnap, snapSeen, callSince, lastGroups, groupsSeen>>
  /\ Publish([(IF update.empty THEN View
               ELSE ApplyStockUpdate(View, update.recordId, update.newStock))
              EXCEPT !.last =
                IF update.empty THEN Did("stockUpdate.empty", update)
                ELSE [Did("stockUpdate", update) EXCEPT
                        !.a = lastStock[update.recordId]]])

\* The cart$ subscriber.
CartUpdate(cartItems) ==
  /\ cartSnap' = cartItems
  /\ snapSeen' = TRUE
  /\ callSince' = FALSE
  /\ UNCHANGED <<request, visiblePhoto, photo, flight,
                 searchText, groups, visibleError, errorMessage,
                 userEmail, recFetch, grpFetch, groupsFetch,
                 crudCalls, lastStock, lastGroups, groupsSeen>>
  /\ Publish([View EXCEPT !.heap = ApplyCart(heap, records, cartItems),
                          !.filteredRecords = records,
                          !.last = Did("cartUpdate", cartItems)])

(* ------------------------------- search -------------------------------- *)
\* onSearchChange after the search box set searchText: filterRecords.
OnSearchChange(text) ==
  /\ searchText' = text
  /\ UNCHANGED <<request, visiblePhoto, photo, flight,
                 groups, visibleError, errorMessage, userEmail,
                 recFetch, grpFetch, groupsFetch, crudCalls,
                 lastStock, cartSnap, snapSeen, callSince, lastGroups, groupsSeen>>
  /\ Publish([View EXCEPT !.filteredRecords = SearchFilter(heap, records, text),
                          !.last = Did("onSearchChange", text)])

(* -------------------------------- cart --------------------------------- *)
\* A variant of AddToCartGuard without the identity check.
AddToCartGuardAlways == TRUE

\* addToCart goes on past `if (!userEmail) return`.
AddToCartGuard == userEmail

\* removeFromCart goes on past `if (!userEmail || !record.inCart) return`.
RemoveFromCartGuard(o) == userEmail /\ heap[o].inCart

\* A cart method called on the record object o: it returns at its guard,
\* or subscribes to the cartService call and returns.
CallCart(kind, o, guard) ==
  /\ o \in Range(filteredRecords)
  /\ guard => Len(cartCalls) < MaxCartCalls
  /\ callSince' = (callSince \/ guard)
  /\ UNCHANGED <<request, visiblePhoto, photo, flight,
                 searchText, groups, visibleError, errorMessage,
                 userEmail, recFetch, grpFetch, groupsFetch, crudCalls,
                 lastStock, cartSnap, snapSeen, lastGroups, groupsSeen>>
  /\ Publish([View EXCEPT
       !.cartCalls = IF guard THEN Append(cartCalls, [kind |-> kind, obj |-> o])
                     ELSE cartCalls,
       !.last = [op |-> kind, obj |-> o, a |-> heap[o].amount, arg |-> <<>>]])

AddToCart(o) == CallCart("addToCart", o, AddToCartGuard)

RemoveFromCart(o) ==
  /\ o \in DOMAIN heap
  /\ CallCart("removeFromCart", o, RemoveFromCartGuard(o))

\* A variant of AddToCartErrorRecord that takes back one unit instead of
\* resetting.
AddToCartErrorRecordDecrement(r) ==
  LET amount == IF r.amount - 1 > 0 THEN r.amount - 1 ELSE 0
  IN  [r EXCEPT !.amount = amount, !.inCart = (amount > 0)]

\* A variant of RemoveFromCartNextRecord without Math.max.
RemoveFromCartNextRecordUnclamped(r) ==
  [r EXCEPT !.amount = r.amount - 1, !.inCart = (r.amount - 1 > 0)]

\* The record as the four cart callbacks leave it.
AddToCartNextRecord(r) == [r EXCEPT !.inCart = TRUE, !.amount = r.amount + 1]

AddToCartErrorRecord(r) == [r EXCEPT !.inCart = FALSE, !.amount = 0]

RemoveFromCartNextRecord(r) ==
  LET amount == IF r.amount - 1 > 0 THEN r.amount - 1 ELSE 0
  IN  [r EXCEPT !.amount = amount, !.inCart = (amount > 0)]

RemoveFromCartErrorRecord(r) == [r EXCEPT !.amount = r.amount + 1, !.inCart = TRUE]

\* A callback of the pending cart call i: it writes to the record object the
\* call was made on, then sets filteredRecords to a copy of records.
CartCallback(i, kind, name, r) ==
  /\ cartCalls[i].kind = kind
  /\ r.amount <= MaxAmount
  /\ UNCHANGED <<request, visiblePhoto, photo, flight,
                 searchText, groups, visibleError, errorMessage,
                 userEmail, recFetch, grpFetch, groupsFetch, crudCalls,
                 lastStock, cartSnap, snapSeen, callSince, lastGroups, groupsSeen>>
  /\ Publish([View EXCEPT
       !.heap = [heap EXCEPT ![cartCalls[i].obj] = r],
       !.filteredRecords = records,
       !.cartCalls = RemoveAt(cartCalls, i),
       !.last = [op |-> name, obj |-> cartCalls[i].obj,
                 a |-> heap[cartCalls[i].obj].amount, arg |-> <<>>]])

AddToCartNext(i) ==
  /\ i \in DOMAIN cartCalls
  /\ CartCallback(i, "addToCart", "addToCart.next",
                  AddToCartNextRecord(heap[cartCalls[i].obj]))

AddToCartError(i) ==
  /\ i \in DOMAIN cartCalls
  /\ CartCallback(i, "addToCart", "addToCart.error",
                  AddToCartErrorRecord(heap[cartCalls[i].obj]))

RemoveFromCartNext(i) ==
  /\ i \in DOMAIN cartCalls
  /\ CartCallback(i, "removeFromCart", "removeFromCart.next",
                  RemoveFromCartNextRecord(heap[cartCalls[i].obj]))

RemoveFromCartError(i) ==
  /\ i \in DOMAIN cartCalls
  /\ CartCallback(i, "removeFromCart", "removeFromCart.error",
                  RemoveFromCartErrorRecord(heap[cartCalls[i].obj]))

\* The user signs in or out elsewhere in the application.
UserChange ==
  /\ userEmail' = ~userEmail
  /\ UNCHANGED <<request, visiblePhoto, photo, flight,
                 searchText, groups, visibleError, errorMessage,
                 recFetch, grpFetch, groupsFetch, crudCalls,
                 lastStock, cartSnap, snapSeen, callSince, lastGroups, groupsSeen>>
  /\ Publish([View EXCEPT !.last = NoOp("userChange")])

(* ----------------------------- edit and CRUD --------------------------- *)
\* url.split('/'), last part.
RECURSIVE extractImageName(_)
extractImageName(url) ==
  IF url = <<>> THEN <<>>
  ELSE IF url[Len(url)] = "/" THEN <<>>
  ELSE extractImageName(SubSeq(url, 1, Len(url) - 1)) \o <<url[Len(url)]>>

\* A view with a new object of value r in the edit buffer.
WithRecord(v, r) ==
  [v EXCEPT !.heap = Append(v.heap, r), !.record = Len(v.heap) + 1]

\* edit(record): a spread copy, photo cleared, photoName from the image URL.
Edit(o) ==
  /\ o \in Range(filteredRecords)
  /\ UNCHANGED <<request, visiblePhoto, photo, flight,
                 searchText, groups, visibleError, errorMessage, userEmail,
                 recFetch, grpFetch, groupsFetch, crudCalls,
                 lastStock, cartSnap, snapSeen, callSince, lastGroups, groupsSeen>>
  /\ Publish([WithRecord(View,
                [heap[o] EXCEPT !.photo = <<>>,
                                !.photoName = extractImageName(heap[o].imageRecord)])
              EXCEPT !.last = NoOp("edit")])

\* showImage(record): a second click on the record being shown hides the
\* viewer; otherwise the record object itself becomes this.record.
ShowImage(o) ==
  /\ o \in Range(filteredRecords)
  /\ visiblePhoto' = ~(visiblePhoto /\ record = o)
  /\ photo' = IF visiblePhoto /\ record = o THEN photo ELSE heap[o].imageRecord
  /\ UNCHANGED <<request, flight,
                 searchText, groups, visibleError, errorMessage, userEmail,
                 recFetch, grpFetch, groupsFetch, crudCalls,
                 lastStock, cartSnap, snapSeen, callSince, lastGroups, groupsSeen>>
  /\ Publish([View EXCEPT
       !.record = IF visiblePhoto /\ record = o THEN record ELSE o,
       !.last = [op |-> "showImage", obj |-> o, a |-> 0, arg |-> <<>>]])

\* onChange(event): a chosen file is written into the object this.record
\* refers to.
OnChange(file) ==
  /\ UNCHANGED <<request, visiblePhoto, photo, flight,
                 searchText, groups, visibleError, errorMessage, userEmail,
                 recFetch, grpFetch, groupsFetch, crudCalls,
                 lastStock, cartSnap, snapSeen, callSince, lastGroups, groupsSeen>>
  /\ Publish([View EXCEPT
       !.heap = IF Len(file) > 0
                  THEN [heap EXCEPT ![record].photo = file[1].data,
                                    ![record].photoName = file[1].name]
                  ELSE heap,
       !.last = [op |-> "onChange", obj |-> record, a |-> 0, arg |-> file]])

\* this.form.reset(): every control of the form is set to null, and the
\* two-way bindings write that into the fields of this.record the form
\* edits.  photo and photoName are written by onChange, not by a control.
FormReset(r) ==
  [r EXCEPT !.titleRecord = <<>>, !.yearOfPublication = 0, !.price = 0,
            !.stock = 0, !.discontinued = FALSE, !.groupId = 0]

CancelEdition ==
  /\ UNCHANGED <<request, visiblePhoto, photo, flight,
                 searchText, groups, visibleError, errorMessage, userEmail,
                 recFetch, grpFetch, groupsFetch, crudCalls,
                 lastStock, cartSnap, snapSeen, callSince, lastGroups, groupsSeen>>
  /\ Publish([WithRecord(View, EmptyRecord) EXCEPT !.last = NoOp("cancelEdition")])

\* A CRUD call is issued.
IssueCrud(kind) ==
  /\ Len(crudCalls) < MaxCrud
  /\ crudCalls' = Append(crudCalls, [kind |-> kind])
  /\ UNCHANGED <<request, visiblePhoto, photo, flight,
                 searchText, groups, visibleError, errorMessage,
                 userEmail, recFetch, grpFetch, groupsFetch,
                 lastStock, cartSnap, snapSeen, callSince, lastGroups, groupsSeen>>
  /\ Publish([View EXCEPT !.last = NoOp(kind)])

\* save() picks addRecord or updateRecord by the buffer's idRecord.
Save == IssueCrud(IF heap[record].idRecord = 0 THEN "addRecord" ELSE "updateRecord")

\* confirmDelete accepted for a listed record.
DeleteRecord(o) ==
  /\ o \in Range(filteredRecords)
  /\ IssueCrud("deleteRecord")

\* The view a CRUD call's next callback leaves: updateRecord calls
\* cancelEdition() and form.reset(), addRecord calls form.reset() on the
\* buffer as it is, deleteRecord leaves the buffer alone.
CrudNextView(v, kind) ==
  CASE kind = "updateRecord" -> WithRecord(v, FormReset(EmptyRecord))
    [] kind = "addRecord" ->
         [v EXCEPT !.heap = [v.heap EXCEPT ![v.record] = FormReset(v.heap[v.record])]]
    [] OTHER -> v

\* next callback of a CRUD call: visibleError cleared, the buffer and the
\* form reset as the path does, and getRecords() is issued.  `max` bounds
\* the refreshes in flight.
CrudNextWithin(i, max) ==
  /\ i \in DOMAIN crudCalls
  /\ RefreshesInFlight < max
  /\ crudCalls' = RemoveAt(crudCalls, i)
  /\ visibleError' = FALSE
  /\ recFetch' = recFetch + 1
  /\ flight' = Append(flight, NewRefresh)
  /\ UNCHANGED <<request, visiblePhoto, photo,
                 searchText, groups, errorMessage, userEmail, grpFetch,
                 groupsFetch, lastStock, cartSnap, snapSeen,
                 callSince, lastGroups, groupsSeen>>
  /\ Publish([CrudNextView(View, crudCalls[i].kind)
              EXCEPT !.last = [op |-> crudCalls[i].kind \o ".next",
                               obj |-> record, a |-> 0, arg |-> <<>>]])

CrudNext(i) == CrudNextWithin(i, MaxRefresh)

\* error callback of a CRUD call.
CrudError(i, err) ==
  /\ i \in DOMAIN crudCalls
  /\ crudCalls' = RemoveAt(crudCalls, i)
  /\ visibleError' = TRUE
  /\ errorMessage' = ControlError(err)
  /\ UNCHANGED <<request, visiblePhoto, photo, flight,
                 searchText, groups, userEmail, recFetch, grpFetch,
                 groupsFetch, lastStock, cartSnap, snapSeen,
                 callSince, lastGroups, groupsSeen>>
  /\ Publish([View EXCEPT !.last = [op |-> crudCalls[i].kind \o ".error",
                                     obj |-> record, a |-> 0, arg |-> err]])

(* ------------------------ GroupsService.updateGroup -------------------- *)
\* getHeaders(contentType): Authorization and Accept always, Content-Type
\* unless contentType is empty or multipart/form-data.
GetHeaders(contentType) ==
  {<<"Authorization", "Bearer">>, <<"Accept", "application/json">>}
    \cup (IF contentType # "" /\ contentType # "multipart/form-data"
            THEN {<<"Content-Type", contentType>>} ELSE {})

\* A variant of UpdateGroupParams that passes the stored image whenever there
\* is one.
UpdateGroupParamsKeepImage(group) ==
  {<<"NameGroup", group.nameGroup>>}
    \cup (IF group.musicGenreId # 0
            THEN {<<"MusicGenreId", toString(group.musicGenreId)>>} ELSE {})
    \cup (IF group.imageGroup # <<>>
            THEN {<<"ImageGroup", group.imageGroup>>} ELSE {})

\* The query parameters of updateGroup: NameGroup, MusicGenreId when there is
\* one, ImageGroup when there is a stored image and no new photo.
UpdateGroupParams(group) ==
  {<<"NameGroup", group.nameGroup>>}
    \cup (IF group.musicGenreId # 0
            THEN {<<"MusicGenreId", toString(group.musicGenreId)>>} ELSE {})
    \cup (IF group.imageGroup # <<>> /\ group.photo = <<>>
            THEN {<<"ImageGroup", group.imageGroup>>} ELSE {})

\* The body of updateGroup: a FormData with the one entry Photo when there
\* is a photo, null (the empty sequence) otherwise.
UpdateGroupBody(group) ==
  IF group.photo # <<>> THEN <<[name |-> "Photo", value |-> group.photo]>>
  ELSE <<>>

\* The PUT request updateGroup builds.
UpdateGroupRequest(group) ==
  [idGroup |-> group.idGroup,
   params |-> UpdateGroupParams(group),
   body |-> UpdateGroupBody(group),
   headers |-> IF UpdateGroupBody(group) # <<>>
                 THEN GetHeaders("multipart/form-data")
                 ELSE GetHeaders("application/json")]

\* updateGroup(group) is called and sends its request.
UpdateGroup(group) ==
  /\ request' = <<[group |-> group, sent |-> UpdateGroupRequest(group)]>>
  /\ UNCHANGED <<visiblePhoto, photo, flight,
                 searchText, groups, visibleError, errorMessage, userEmail,
                 recFetch, grpFetch, groupsFetch, crudCalls,
                 lastStock, cartSnap, snapSeen, callSince, lastGroups, groupsSeen>>
  /\ Publish([View EXCEPT !.last = Did("updateGroup", group)])

(* ---------------------------- specifications --------------------------- *)
Responses(shapes, lists) == [shape : shapes, list : lists]

\* A refresh, both phases, answered from the given responses.
Refresh(recordResps, groupResps) ==
  \/ \E resp \in recordResps : RecordsFetched(resp)
  \/ \E ra \in BagToSet(grpFetch), resp \in groupResps :
       RefreshGroupsFetched(ra, resp)

\* One answer of each kind, for the specifications that are not about the
\* fetched data.
OneRecordResp == Responses({"$values"}, {<<PayloadA, PayloadB>>})
OneGroupResp == Responses({"$values"}, {<<GroupRock>>})

\* The cart methods and their callbacks.
Cart ==
  \/ \E o \in DOMAIN heap : AddToCart(o)
  \/ \E o \in DOMAIN heap : RemoveFromCart(o)
  \/ \E i \in DOMAIN cartCalls : AddToCartNext(i)
  \/ \E i \in DOMAIN cartCalls : AddToCartError(i)
  \/ \E i \in DOMAIN cartCalls : RemoveFromCartNext(i)
  \/ \E i \in DOMAIN cartCalls : RemoveFromCartError(i)
  \/ UserChange

\* A delete, whose success re-fetches the records.
Delete ==
  \/ \E o \in DOMAIN heap : DeleteRecord(o)
  \/ \E i \in DOMAIN crudCalls : CrudNext(i)

\* The edit buffer and the CRUD calls made from it.
Crud ==
  \/ \E o \in DOMAIN heap : Edit(o)
  \/ CancelEdition
  \/ Save
  \/ \E o \in DOMAIN heap : DeleteRecord(o)
  \/ \E i \in DOMAIN crudCalls : CrudNext(i)
  \/ \E i \in DOMAIN crudCalls, err \in HttpErrors : CrudError(i, err)

\* The cart: one record list, stock events for one record, every cart
\* snapshot and the cart methods.
NextCart ==
  \/ Refresh(OneRecordResp, OneGroupResp)
  \/ StockUpdate([empty |-> FALSE, recordId |-> 1, newStock |-> 5])
  \/ \E cartItems \in CartSnapshots : CartUpdate(cartItems)
  \/ Cart

SpecCart == Init /\ [][NextCart]_vars

\* The search box: one record list, every search text, and the handlers
\* that write filteredRecords.
NextSearch ==
  \/ Refresh(OneRecordResp, OneGroupResp)
  \/ \E text \in SearchTexts : OnSearchChange(text)
  \/ StockUpdate([empty |-> FALSE, recordId |-> 1, newStock |-> 5])
  \/ \E cartItems \in CartSnapshots : CartUpdate(cartItems)
  \/ \E o \in DOMAIN heap : AddToCart(o)
  \/ \E i \in DOMAIN cartCalls : AddToCartNext(i)
  \/ \E i \in DOMAIN cartCalls : AddToCartError(i)

SpecSearch == Init /\ [][NextSearch]_vars

\* Stock: every record list, bare or in an unknown envelope, every stock
\* event, and deletes to refresh the list.
NextStock ==
  \/ Refresh(Responses({"array", "other"}, ServerRecordLists), OneGroupResp)
  \/ \E update \in StockUpdates : StockUpdate(update)
  \/ Delete

SpecStock == Init /\ [][NextStock]_vars

\* Groups: every record list, every group answer in every envelope, failed
\* group fetches of a refresh, getGroups, and deletes to refresh the list.
NextGroups ==
  \/ Refresh(Responses({"$values"}, ServerRecordLists),
             Responses(Shapes, ServerGroupLists))
  \/ \E ra \in BagToSet(grpFetch) : RefreshGroupsFailed(ra)
  \/ \E resp \in Responses(Shapes, ServerGroupLists) : GroupsFetched(resp)
  \/ Delete

SpecGroups == Init /\ [][NextGroups]_vars

\* Errors: the fetches, the CRUD calls and addToCart, answered with success
\* or failure.
NextErrors ==
  \/ Refresh(OneRecordResp, OneGroupResp)
  \/ \E err \in HttpErrors : RecordsFetchFailed(err)
  \/ \E ra \in BagToSet(grpFetch) : RefreshGroupsFailed(ra)
  \/ \E resp \in OneGroupResp : GroupsFetched(resp)
  \/ GroupsFetchFailed
  \/ Crud
  \/ \E o \in DOMAIN heap : AddToCart(o)
  \/ \E i \in DOMAIN cartCalls : AddToCartError(i)

SpecErrors == Init /\ [][NextErrors]_vars

\* The edit buffer: both record lists, edit, the image viewer, the file
\* input, and the CRUD calls with their re-fetch.
NextEdit ==
  \/ Refresh(Responses({"$values"}, ServerRecordLists), OneGroupResp)
  \/ \E o \in DOMAIN heap : Edit(o)
  \/ \E o \in DOMAIN heap : ShowImage(o)
  \/ \E file \in FileLists : OnChange(file)
  \/ CancelEdition
  \/ Save
  \/ \E o \in DOMAIN heap : DeleteRecord(o)
  \/ \E i \in DOMAIN crudCalls : CrudNext(i)
  \/ \E i \in DOMAIN crudCalls :
       CrudError(i, [kind |-> "string", message |-> <<"S">>])

SpecEdit == Init /\ [][NextEdit]_vars

\* Overlapping refreshes: saves whose success re-fetches while an earlier
\* refresh is still in flight, the answers arriving in any order.
NextOverlap ==
  \/ Refresh(Responses({"array"}, ServerRecordLists), OneGroupResp)
  \/ \E ra \in BagToSet(grpFetch) : RefreshGroupsFailed(ra)
  \/ Save
  \/ \E i \in DOMAIN crudCalls : CrudNextWithin(i, MaxOverlap)

SpecOverlap == Init /\ [][NextOverlap]_vars

\* Fetched data: incomplete records in every envelope, every group list,
\* one stock event, and deletes to refresh the list.
NextFetch ==
  \/ Refresh(Responses(Shapes, OddRecordLists),
             Responses({"array"}, ServerGroupLists))
  \/ StockUpdate([empty |-> FALSE, recordId |-> 2, newStock |-> 5])
  \/ Delete

SpecFetch == Init /\ [][NextFetch]_vars

\* GroupsService: getGroups answered in every envelope or failing, and
\* updateGroup called with every edited group.
NextGroupsService ==
  \/ \E resp \in Responses(Shapes, ServerGroupLists) : GroupsFetched(resp)
  \/ GroupsFetchFailed
  \/ \E group \in EditedGroups : UpdateGroup(group)

SpecGroupsService == Init /\ [][NextGroupsService]_vars

(* ------------------------------- claims -------------------------------- *)
\* The record objects a list of references shows.
Val(list) == [i \in DOMAIN list |-> heap[list[i]]]

\* cartItems' amount for idRecord id, 0 when no item has that id.
SnapshotAmount(cartItems, id) ==
  IF FindCartItem(cartItems, id) = 0 THEN 0
  ELSE cartItems[FindCartItem(cartItems, id)].amount

\* C1: in every reachable state filteredRecords shows exactly the records of
\* `records` that match the current searchText, in records order.
FilteredIsSearchFilter ==
  Val(filteredRecords) = Val(SearchFilter(heap, records, searchText))

\* C2: in every reachable state, every record in `records` whose idRecord
\* has had a stock event delivered carries the newStock of the latest one.
StockIsLatestEvent ==
  \A i \in DOMAIN records :
    LET r == heap[records[i]]
    IN  r.idRecord \in RecordIds /\ lastStock[r.idRecord] # -1
          => r.stock = lastStock[r.idRecord]

\* C3: once a cart snapshot has been delivered and no cart call was started
\* since, every record in `records` has inCart and amount as the latest
\* snapshot gives them.
CartIsLatestSnapshot ==
  snapSeen /\ ~callSince =>
    \A i \in DOMAIN records :
      LET r == heap[records[i]]
      IN  /\ r.inCart = (FindCartItem(cartSnap, r.idRecord) # 0)
          /\ r.amount = SnapshotAmount(cartSnap, r.idRecord)

\* C4: in every reachable state, every record's groupName and nameGroup are
\* its groupId resolved against the group list delivered most recently, be
\* it by a refresh or by getGroups.
GroupNameIsLatestGroups ==
  groupsSeen =>
    \A i \in DOMAIN records :
      LET r == heap[records[i]]
      IN  /\ r.groupName = ResolveGroupName(r.groupId, lastGroups)
          /\ r.nameGroup = ResolveGroupName(r.groupId, lastGroups)

\* C5: right after addToCart was called with a user identity present, while
\* the call is pending, the record has inCart true and its amount one up,
\* and filteredRecords has been republished from records.
AddIsOptimistic ==
  last.op = "addToCart" /\ userEmail =>
    /\ heap[last.obj].inCart
    /\ heap[last.obj].amount = last.a + 1
    /\ filteredRecords = records

\* C6: after the error callback of addToCart, the record the call was made
\* on has inCart false and amount 0, whatever its amount was.
AddFailureResets ==
  last.op = "addToCart.error" =>
    ~heap[last.obj].inCart /\ heap[last.obj].amount = 0

\* C6 witness: a failed add on a record whose amount was 2.
AddFailureResetsFromTwo ==
  last.op = "addToCart.error" /\ last.a = 2 /\ heap[last.obj].amount = 0

GuardFailureIsNoOp ==
  [][(\/ last'.op = "addToCart" /\ ~userEmail
      \/ last'.op = "removeFromCart" /\ (~userEmail \/ ~heap[last'.obj].inCart))
       => /\ cartCalls' = cartCalls
          /\ records' = records
          /\ filteredRecords' = filteredRecords
          /\ \A o \in Range(records) \cup Range(filteredRecords) : heap'[o] = heap[o]
          /\ visibleError' = visibleError
          /\ errorMessage' = errorMessage]_vars

\* C8 witness: removeFromCart was called with a user identity on a record
\* that is not in the cart, and nothing is pending.
RemoveSkippedNotInCart ==
  /\ last.op = "removeFromCart"
  /\ userEmail
  /\ ~heap[last.obj].inCart
  /\ cartCalls = <<>>

FailureOps ==
  {"getRecords.error", "getRecords.groupsFailed", "getGroups.failed",
   "addRecord.error", "updateRecord.error", "deleteRecord.error",
   "addToCart.error", "removeFromCart.error"}

\* C9: after the failure of any call the screen makes, visibleError is true
\* and errorMessage is not empty.
FailureIsShown ==
  last.op \in FailureOps => visibleError /\ errorMessage # <<>>

\* C10: when the group fetch of a refresh fails, the refresh publishes the
\* whole fetched list to records and filteredRecords, every record with
\* empty groupName and nameGroup.
GroupFailurePublishesBlank ==
  [][last'.op = "getRecords.groupsFailed" =>
       \E ra \in BagToSet(grpFetch) :
         /\ grpFetch' = grpFetch (-) SetToBag({ra})
         /\ Len(records') = Len(ra)
         /\ filteredRecords' = records'
         /\ \A i \in DOMAIN ra :
              LET r == heap'[records'[i]]
              IN  /\ r.idRecord = ra[i].idRecord
                  /\ r.titleRecord = ra[i].titleRecord
                  /\ r.stock = ra[i].stock
                  /\ r.groupName = <<>>
                  /\ r.nameGroup = <<>>]_vars

\* C10 witness: a failed group fetch published a record whose payload
\* carried a group name.
GroupFailurePublishedRecord ==
  /\ last.op = "getRecords.groupsFailed"
  /\ \E i \in DOMAIN records :
       heap[records[i]].idRecord = PayloadA.idRecord /\ heap[records[i]].groupName = <<>>

\* C11: in every reachable state the edit buffer's idRecord is 0 or is the
\* idRecord of an entry of records.
BufferIdIsListed ==
  \/ heap[record].idRecord = 0
  \/ \E i \in DOMAIN records : heap[records[i]].idRecord = heap[record].idRecord

\* C12: in no reachable state is the edit buffer the same object as an entry
\* of records or of filteredRecords.
BufferIsNotShared ==
  record \notin Range(records) \cup Range(filteredRecords)

\* C13: after cancelEdition and after every successful save, on the create
\* path and on the update path, the edit buffer is the empty sentinel; a
\* failed save leaves the buffer as it was.
BufferResetAfterSave ==
  [][/\ last'.op \in {"cancelEdition", "addRecord.next", "updateRecord.next"}
         => heap'[record'] = EmptyRecord
     /\ last'.op \in {"addRecord.error", "updateRecord.error"}
         => heap'[record'] = heap[record]]_vars

\* C14: whenever the group continuation of a refresh runs, whatever other
\* refreshes are in flight or have finished, records and filteredRecords
\* become that refresh's fetched list, and the other refreshes stay in
\* flight.
LastWriterWins ==
  [][last'.op = "getRecords.groups" =>
       \E ra \in BagToSet(grpFetch) :
         /\ grpFetch' = grpFetch (-) SetToBag({ra})
         /\ recFetch' = recFetch
         /\ Len(flight') = Len(flight) - 1
         /\ Len(records') = Len(ra)
         /\ filteredRecords' = records'
         /\ \A i \in DOMAIN ra :
              LET r == heap'[records'[i]]
              IN  /\ r.idRecord = ra[i].idRecord
                  /\ r.titleRecord = ra[i].titleRecord
                  /\ r.stock = ra[i].stock]_vars

\* C14 witness: the refresh that finished last had been issued before one
\* that finished earlier; the later one had fetched stock 5 for record 1,
\* and the list now shown is the older one, two records, stock 2.
OlderRefreshWon ==
  /\ last.op = "getRecords.groups"
  /\ last.arg.overtaken
  /\ flight = <<>>
  /\ lastStock[1] = 5
  /\ Len(records) = 2
  /\ heap[records[1]].stock = 2

\* C15: handling a stock event (recordId, newStock) leaves records and
\* filteredRecords entry for entry as they were, except that every entry
\* whose idRecord is recordId has stock = newStock; an empty event changes
\* no entry.  The latest event for a record therefore decides its stock.
StockEventApplied ==
  [][/\ last'.op = "stockUpdate" =>
          /\ Len(records') = Len(records)
          /\ Len(filteredRecords') = Len(filteredRecords)
          /\ \A i \in DOMAIN records :
               heap'[records'[i]] =
                 IF heap[records[i]].idRecord = last'.arg.recordId
                   THEN [heap[records[i]] EXCEPT !.stock = last'.arg.newStock]
                   ELSE heap[records[i]]
          /\ \A i \in DOMAIN filteredRecords :
               heap'[filteredRecords'[i]] =
                 IF heap[filteredRecords[i]].idRecord = last'.arg.recordId
                   THEN [heap[filteredRecords[i]] EXCEPT !.stock = last'.arg.newStock]
                   ELSE heap[filteredRecords[i]]
     /\ last'.op = "stockUpdate.empty" =>
          /\ Len(records') = Len(records)
          /\ Len(filteredRecords') = Len(filteredRecords)
          /\ \A i \in DOMAIN records : heap'[records'[i]] = heap[records[i]]
          /\ \A i \in DOMAIN filteredRecords :
               heap'[filteredRecords'[i]] = heap[filteredRecords[i]]]_vars

\* C15 witness: the event before this one gave the same record stock 5, this
\* one gives it 0, and the record shows 0 in both lists while another record
\* is listed beside it.
StockFiveThenZero ==
  /\ last.op = "stockUpdate"
  /\ last.a = 5
  /\ last.arg.newStock = 0
  /\ Len(records) = 2
  /\ \E i \in DOMAIN records :
       /\ heap[records[i]].idRecord = last.arg.recordId
       /\ heap[records[i]].stock = 0
       /\ heap[filteredRecords[i]].idRecord = last.arg.recordId
       /\ heap[filteredRecords[i]].stock = 0

\* C16: a successful record fetch calls updateStock once for every record of
\* the fetched list, none skipped, and the channel then holds the fetched
\* stock of each.
SeedsEveryRecord ==
  [][last'.op = "getRecords.next" =>
       \E ra \in BagToSet(grpFetch') :
         /\ grpFetch' = grpFetch (+) SetToBag({ra})
         /\ last'.a = Len(ra)
         /\ \A i \in DOMAIN ra :
              ra[i].idRecord \in RecordIds =>
                lastStock'[ra[i].idRecord] = ra[i].stock]_vars

\* C17: handling a cart snapshot gives every record in records inCart =
\* (the snapshot has an item with its idRecord) and amount = that item's
\* amount, 0 when there is no such item or it has no amount, and sets
\* filteredRecords to the whole of records whatever searchText is.
CartSnapshotApplied ==
  [][last'.op = "cartUpdate" =>
       /\ Len(records') = Len(records)
       /\ \A i \in DOMAIN records :
            LET K == {k \in DOMAIN last'.arg :
                        last'.arg[k].idRecord = heap[records[i]].idRecord}
            IN  heap'[records'[i]] =
                  [heap[records[i]] EXCEPT
                     !.inCart = (K # {}),
                     !.amount = IF K # {} THEN last'.arg[Min(K)].amount ELSE 0]
       /\ filteredRecords' = records']_vars

\* C17 witness: a snapshot was handled while the search text "97" was set
\* and the filter had left one record of two; both are shown again, record
\* 2 in the cart with no amount and record 1 with amount 2.
SnapshotShowsAllRecords ==
  /\ last.op = "cartUpdate"
  /\ searchText = <<"9", "7">>
  /\ Len(filteredRecords) = 2
  /\ Len(SearchFilter(heap, records, searchText)) = 1
  /\ \E i, j \in DOMAIN records :
       /\ heap[records[i]].idRecord = 2
       /\ heap[records[i]].inCart
       /\ heap[records[i]].amount = 0
       /\ heap[records[j]].idRecord = 1
       /\ heap[records[j]].amount = 2

\* C18: after a refresh whose two fetches succeeded, every published record
\* has groupName = nameGroup = the name of the first group whose idGroup is
\* the record's groupId, the empty string when the record has no groupId or
\* no group has that id (or the group has no name), and its stock is the
\* fetched stock.
GroupNameResolved ==
  [][last'.op = "getRecords.groups" =>
       \E ra \in BagToSet(grpFetch) :
         /\ grpFetch' = grpFetch (-) SetToBag({ra})
         /\ Len(records') = Len(ra)
         /\ \A i \in DOMAIN ra :
              LET r == heap'[records'[i]]
                  M == {k \in DOMAIN lastGroups' :
                          lastGroups'[k].idGroup = ra[i].groupId}
              IN  /\ r.groupName = r.nameGroup
                  /\ ra[i].groupId = 0 \/ M = {} => r.groupName = <<>>
                  /\ ra[i].groupId # 0 /\ M # {} =>
                       r.groupName = lastGroups'[Min(M)].nameGroup
                  /\ r.stock = (IF ra[i].stockIsNumber THEN ra[i].stock ELSE 0)]_vars

\* C18 witness: a refresh published record 1 (groupId 9, stock 2) with the
\* name of group 9 and, beside it, a record whose groupId no group has,
\* with an empty name.
GroupNameResolvedRock ==
  /\ last.op = "getRecords.groups"
  /\ lastGroups = <<GroupRock>>
  /\ \E i, j \in DOMAIN records :
       /\ heap[records[i]].idRecord = 1
       /\ heap[records[i]].groupName = GroupRock.nameGroup
       /\ heap[records[i]].stock = 2
       /\ heap[records[j]].groupId = 8
       /\ heap[records[j]].groupName = <<>>

\* C19: filterRecords leaves records alone and sets filteredRecords to the
\* whole of records when searchText is blank, and otherwise to the records,
\* in records order, whose title, group name or year in decimal contains the
\* search text, letter case ignored; running it again gives the same list.
FilterRecordsIsSearchFilter ==
  [][last'.op = "onSearchChange" =>
       LET term == toLowerCase(searchText')
           Hit(i) ==
             LET r == heap'[records'[i]]
             IN  \/ includes(toLowerCase(r.titleRecord), term)
                 \/ includes(toLowerCase(r.groupName), term)
                 \/ /\ r.yearOfPublication # 0
                    /\ includes(toString(r.yearOfPublication), term)
           I == {i \in DOMAIN records' : Hit(i)}
           pos(k) == CHOOSE i \in DOMAIN records' : records'[i] = filteredRecords'[k]
       IN  /\ Len(records') = Len(records)
           /\ \A i \in DOMAIN records : heap'[records'[i]] = heap[records[i]]
           /\ (\A k \in DOMAIN searchText' : searchText'[k] = " ")
                => filteredRecords' = records'
           /\ (\E k \in DOMAIN searchText' : searchText'[k] # " ")
                => /\ Len(filteredRecords') = Cardinality(I)
                   /\ \A k \in DOMAIN filteredRecords' :
                        filteredRecords'[k] \in {records'[i] : i \in I}
                   /\ \A k1, k2 \in DOMAIN filteredRecords' :
                        k1 < k2 => pos(k1) < pos(k2)
           /\ SearchFilter(heap', records', searchText') = filteredRecords']_vars

\* C19 witness: with the search text "97", of two records the one published
\* in 1997 is shown.
FilterByYear ==
  /\ last.op = "onSearchChange"
  /\ searchText = <<"9", "7">>
  /\ Len(records) = 2
  /\ Len(filteredRecords) = 1
  /\ heap[filteredRecords[1]].yearOfPublication = 1997

\* C20: at every normalization site the same list arrives whether the
\* response is a bare sequence, {$values: [...]} or {data: [...]}, and a
\* group response of none of these shapes gives the empty list.
NormalizationIsShapeBlind ==
  [][/\ last'.op = "getRecords.next"
          /\ last'.arg.shape \in {"array", "$values", "data"}
          => grpFetch' = grpFetch (+) SetToBag({last'.arg.list})
     /\ last'.op = "getGroups.next" =>
          groups' = IF last'.arg.shape \in {"array", "$values", "data"}
                      THEN last'.arg.list ELSE <<>>
     /\ last'.op = "getRecords.groups" =>
          lastGroups' = IF last'.arg.shape \in {"array", "$values", "data"}
                          THEN last'.arg.list ELSE <<>>]_vars

\* C21: the request updateGroup sends has a body, with the one entry Photo,
\* exactly when the group has a photo attached; without a photo it has no
\* body and carries the parameter ImageGroup, with the stored URL, exactly
\* when the group has a stored image; no request has both the Photo body
\* and the ImageGroup parameter.
UpdateGroupPhotoOrImage ==
  \A i \in DOMAIN request :
    LET group == request[i].group
        sent == request[i].sent
        hasPhoto == \E k \in DOMAIN sent.body : sent.body[k].name = "Photo"
        hasImage == \E q \in sent.params : q[1] = "ImageGroup"
    IN  /\ hasPhoto <=> group.photo # <<>>
        /\ group.photo # <<>> => sent.body = <<[name |-> "Photo", value |-> group.photo]>>
        /\ group.photo = <<>> =>
             /\ sent.body = <<>>
             /\ hasImage <=> group.imageGroup # <<>>
             /\ group.imageGroup # <<>> =>
                  <<"ImageGroup", group.imageGroup>> \in sent.params
        /\ ~(hasPhoto /\ hasImage)

\* C21 witness: a group with a stored image and a new photo was sent with
\* the Photo body and without the ImageGroup parameter.
UpdateGroupSentPhoto ==
  /\ request # <<>>
  /\ request[1].group.imageGroup # <<>>
  /\ request[1].group.photo # <<>>
  /\ request[1].sent.body # <<>>
  /\ \A q \in request[1].sent.params : q[1] # "ImageGroup"

\* C22: right after the success callback of addToCart, filteredRecords has
\* an entry with the idRecord of the record the call was made on, in the
\* cart and with an amount one greater than before.
ConfirmedAddIsShown ==
  last.op = "addToCart.next" =>
    \E i \in DOMAIN filteredRecords :
      /\ heap[filteredRecords[i]].idRecord = heap[last.obj].idRecord
      /\ heap[filteredRecords[i]].inCart
      /\ heap[filteredRecords[i]].amount = last.a + 1

====
